---- MODULE Spec2Model ----
(***************************************************************************)
(* ServiceHub (src/flask_app.py): the persisted store (users, services,    *)
(* service_providers, bookings, reviews), the per-client Flask session and *)
(* the request handlers that read and write them.                          *)
(*                                                                         *)
(* Text values are sequences of one-character strings, so that strip() and *)
(* lower() are computed.  Money and ratings are integers.  A handler that  *)
(* reads the store and later writes it (register, provider_register) is    *)
(* split at the statement boundary, where another request may run.         *)
(***************************************************************************)
EXTENDS Integers, Sequences, FiniteSets, TLC

VARIABLES users, services, providers, bookings, reviews, session, req, last

vars == <<users, services, providers, bookings, reviews, session, req, last>>

\* ------------------------------------------------------------------ bounds
MaxUsers == 3
MaxProviders == 2
MaxBookings == 1
MaxReviews == 1
MaxQueryReviews == 2

\* two browser sessions: every handler has at most one window between its read
\* and its write, so two requests in flight exhibit each of its races
Clients == {1, 2}

\* ------------------------------------------------------------------ text
Lower(c) ==
  IF c = "A" THEN "a" ELSE IF c = "B" THEN "b" ELSE c

StrLower(s) == [i \in 1..Len(s) |-> Lower(s[i])]

IsSpace(c) == c = " "

RECURSIVE LStrip(_)
LStrip(s) ==
  IF s # <<>> /\ IsSpace(Head(s)) THEN LStrip(Tail(s)) ELSE s

RECURSIVE RStrip(_)
RStrip(s) ==
  IF s # <<>> /\ IsSpace(s[Len(s)]) THEN RStrip(SubSeq(s, 1, Len(s) - 1)) ELSE s

Strip(s) == RStrip(LStrip(s))

\* Python truthiness of a str and of a number
TruthyStr(s) == s # <<>>

TruthyNum(n) == n # 0

Pw(n) == [i \in 1..n |-> "p"]

\* werkzeug's salted hash: only check_password_hash relates it to a password
generate_password_hash(password) == [hash_of |-> password]

check_password_hash(h, password) == h.hash_of = password

\* ------------------------------------------------------------------ store
MinPasswordLen == 8

AdminEmail == <<"admin@servicehub.com">>

AdminPassword == <<"A", "d", "m", "i", "n", "@", "1", "2", "3">>

AdminUser ==
  [email |-> AdminEmail, password_hash |-> generate_password_hash(AdminPassword),
   full_name |-> <<"S">>, phone |-> <<>>, role |-> "admin", status |-> "active"]

DefaultServices ==
  << [name |-> <<"Plumbing">>, category |-> "home", is_active |-> TRUE],
     [name |-> <<"Tutoring">>, category |-> "personal", is_active |-> TRUE] >>

Ids(table) == 1..Len(table)

\* SELECT ... WHERE email = ?
ByEmail(table, email) == {i \in Ids(table) : table[i].email = email}

\* the UNIQUE constraint of the email column: the INSERT raises when it fails
NoUniqueEmail(table, email) == TRUE

UniqueEmail(table, email) == ByEmail(table, email) = {}

\* ------------------------------------------------------------------ session
EmptySession == [user_id |-> 0, role |-> "none", provider_id |-> 0]

Idle == [op |-> "idle"]

\* the response of the handler that ran last: its input and what it returned
Done(op, c, outcome, arg) ==
  [op |-> op, outcome |-> outcome, arg |-> arg, result |-> <<>>]

\* the same, for the handlers behind a session gate: who called
DoneBy(op, c, outcome, arg) ==
  [op |-> op, outcome |-> outcome, arg |-> arg, result |-> <<>>, client |-> c]

Init ==
  /\ users = <<AdminUser>>
  /\ services = DefaultServices
  /\ providers = <<>>
  /\ bookings = <<>>
  /\ reviews = <<>>
  /\ session = [c \in Clients |-> EmptySession]
  /\ req = [c \in Clients |-> Idle]
  /\ last = Done("init", 0, "ok", <<>>)

InFlight(op) == Cardinality({c \in Clients : req[c].op = op})

\* ------------------------------------------------------------------ register
UserForms ==
  LET base == [email |-> <<"a">>, password |-> Pw(8), full_name |-> <<"n">>, phone |-> <<"9">>]
  IN  {base}
      \cup {[base EXCEPT !.email = e] : e \in {<<"A", " ">>, <<" ">>, <<"b">>, AdminEmail}}
      \cup {[base EXCEPT !.password = p] : p \in {Pw(0), Pw(7)}}
      \cup {[base EXCEPT !.full_name = n] : n \in {<<>>, <<" ">>}}
      \cup {[base EXCEPT !.phone = <<" ">>]}

\* lines 388-409: read the form, validate, look the email up
register_check(c, form) ==
  LET email == StrLower(Strip(form.email))
      password == form.password
      full_name == Strip(form.full_name)
      phone == Strip(form.phone)
  IN  /\ req[c] = Idle
      /\ Len(users) + InFlight("register") < MaxUsers
      /\ UNCHANGED <<users, services, providers, bookings, reviews, session>>
      /\ IF ~TruthyStr(email) \/ ~TruthyStr(password) \/ ~TruthyStr(full_name)
           THEN /\ last' = Done("register", c, "validation", form)
                /\ UNCHANGED req
         ELSE IF Len(password) < MinPasswordLen
           THEN /\ last' = Done("register", c, "validation", form)
                /\ UNCHANGED req
         ELSE IF ByEmail(users, email) # {}
           THEN /\ last' = Done("register", c, "duplicate", form)
                /\ UNCHANGED req
         ELSE /\ req' = [req EXCEPT ![c] =
                           [op |-> "register", form |-> form, email |-> email,
                            password |-> password, full_name |-> full_name,
                            phone |-> phone]]
              /\ UNCHANGED last

\* line 40: role TEXT DEFAULT 'user'; the INSERT of register (lines 414-417)
\* names no role column
UserRoleAdmin == "admin"

UserDefaultRole == "user"

\* lines 412-434: insert, commit, log the new user in
register_insert(c) ==
  /\ req[c].op = "register"
  /\ req' = [req EXCEPT ![c] = Idle]
  /\ UNCHANGED <<services, providers, bookings, reviews>>
  /\ IF UniqueEmail(users, req[c].email)
       THEN /\ users' = Append(users,
                  [email |-> req[c].email,
                   password_hash |-> generate_password_hash(req[c].password),
                   full_name |-> req[c].full_name, phone |-> req[c].phone,
                   role |-> UserDefaultRole, status |-> "active"])
            /\ LET user_id == CHOOSE i \in ByEmail(users', req[c].email) : TRUE
               IN  session' = [session EXCEPT ![c] =
                       [@ EXCEPT !.user_id = user_id, !.role = users'[user_id].role]]
            /\ last' = Done("register", c, "ok", req[c].form)
       ELSE /\ UNCHANGED <<users, session>>
            /\ last' = Done("register", c, "failed", req[c].form)

\* ------------------------------------------------------------------ login
Credentials ==
  { [email |-> AdminEmail, password |-> AdminPassword],
    [email |-> AdminEmail, password |-> Pw(8)],
    [email |-> <<" ", "A">>, password |-> Pw(8)],
    [email |-> <<"b">>, password |-> Pw(8)] }

\* lines 356-382
login(c, cred) ==
  LET email == StrLower(Strip(cred.email))
      found == ByEmail(users, email)
  IN  /\ req[c] = Idle
      /\ UNCHANGED <<users, services, providers, bookings, reviews, req>>
      /\ IF \E i \in found : check_password_hash(users[i].password_hash, cred.password)
           THEN LET i == CHOOSE i \in found : TRUE
                IN  /\ session' = [session EXCEPT ![c] =
                          [@ EXCEPT !.user_id = i, !.role = users[i].role]]
                    /\ last' = Done("login", c, "ok", cred)
           ELSE /\ UNCHANGED session
                /\ last' = Done("login", c, "invalid", cred)

\* lines 506-527
provider_login(c, cred) ==
  LET email == StrLower(Strip(cred.email))
      found == ByEmail(providers, email)
  IN  /\ req[c] = Idle
      /\ UNCHANGED <<users, services, providers, bookings, reviews, req>>
      /\ IF \E i \in found : check_password_hash(providers[i].password_hash, cred.password)
           THEN LET i == CHOOSE i \in found : TRUE
                IN  /\ session' = [session EXCEPT ![c] = [@ EXCEPT !.provider_id = i]]
                    /\ last' = Done("provider_login", c, "ok", cred)
           ELSE /\ UNCHANGED session
                /\ last' = Done("provider_login", c, "invalid", cred)

\* lines 813-825: logout and provider_logout both clear the whole session
logout(c) ==
  /\ req[c] = Idle
  /\ session[c] # EmptySession
  /\ session' = [session EXCEPT ![c] = EmptySession]
  /\ last' = Done("logout", c, "ok", <<>>)
  /\ UNCHANGED <<users, services, providers, bookings, reviews, req>>

\* ------------------------------------------------------------------ provider_register
GoodProviderForm ==
  [email |-> <<"a">>, password |-> Pw(8), business_name |-> <<"b">>,
   owner_name |-> <<"o">>, phone |-> <<"9">>, service_name |-> <<"Plumbing">>,
   location |-> <<"l">>, hourly_rate |-> 2, experience_years |-> 1]

GoodProviderForms ==
  { [GoodProviderForm EXCEPT !.email = e, !.hourly_rate = r, !.service_name = s] :
      e \in {<<"a">>, <<"b">>}, r \in {1, 2}, s \in {<<"Plumbing">>, <<"Tutoring">>} }

ProviderForms ==
  LET base == GoodProviderForm
  IN  {base}
      \cup {[base EXCEPT !.email = e] : e \in {<<"A", " ">>, <<" ">>, <<"b">>}}
      \cup {[base EXCEPT !.password = p] : p \in {Pw(0), Pw(7)}}
      \cup {[base EXCEPT !.business_name = <<" ">>], [base EXCEPT !.owner_name = <<>>],
            [base EXCEPT !.phone = <<" ">>], [base EXCEPT !.location = <<" ">>],
            [base EXCEPT !.service_name = <<>>], [base EXCEPT !.service_name = <<"Nope">>],
            [base EXCEPT !.experience_years = 0]}

\* line 455: all([...]) over the strings and the two numbers
AllFilled(f) ==
  /\ TruthyStr(f.email) /\ TruthyStr(f.password) /\ TruthyStr(f.business_name)
  /\ TruthyStr(f.owner_name) /\ TruthyStr(f.phone) /\ TruthyStr(f.service_name)
  /\ TruthyStr(f.location) /\ TruthyNum(f.hourly_rate) /\ TruthyNum(f.experience_years)

\* lines 443-470: read the form, validate, look the email up
provider_register_check(c, form) ==
  LET email == StrLower(Strip(form.email))
      password == form.password
      business_name == Strip(form.business_name)
      owner_name == Strip(form.owner_name)
      phone == Strip(form.phone)
      service_name == form.service_name
      location == Strip(form.location)
      hourly_rate == form.hourly_rate
      experience_years == form.experience_years
  IN  /\ req[c] = Idle
      /\ Len(providers) + InFlight("provider_register") < MaxProviders
      /\ UNCHANGED <<users, services, providers, bookings, reviews, session>>
      /\ IF ~AllFilled([email |-> email, password |-> password,
                        business_name |-> business_name, owner_name |-> owner_name,
                        phone |-> phone, service_name |-> service_name,
                        location |-> location, hourly_rate |-> hourly_rate,
                        experience_years |-> experience_years])
           THEN /\ last' = Done("provider_register", c, "validation", form)
                /\ UNCHANGED req
         ELSE IF Len(password) < MinPasswordLen
           THEN /\ last' = Done("provider_register", c, "validation", form)
                /\ UNCHANGED req
         ELSE IF ByEmail(providers, email) # {}
           THEN /\ last' = Done("provider_register", c, "duplicate", form)
                /\ UNCHANGED req
         ELSE /\ req' = [req EXCEPT ![c] =
                           [op |-> "provider_register", form |-> form,
                            row |-> [email |-> email,
                                     password_hash |-> generate_password_hash(password),
                                     business_name |-> business_name,
                                     owner_name |-> owner_name, phone |-> phone,
                                     service_name |-> service_name, location |-> location,
                                     hourly_rate |-> hourly_rate,
                                     experience_years |-> experience_years,
                                     kyc_verified |-> FALSE, kyc_status |-> "pending",
                                     status |-> "active"]]]
              /\ UNCHANGED last

\* lines 473-497: insert (kyc_verified, kyc_status and status take the column
\* defaults of lines 72-76), commit, log the new provider in
provider_register_insert(c) ==
  /\ req[c].op = "provider_register"
  /\ req' = [req EXCEPT ![c] = Idle]
  /\ UNCHANGED <<users, services, bookings, reviews>>
  /\ IF UniqueEmail(providers, req[c].row.email)
       THEN /\ providers' = Append(providers, req[c].row)
            /\ LET provider_id == CHOOSE i \in ByEmail(providers', req[c].row.email) : TRUE
               IN  session' = [session EXCEPT ![c] = [@ EXCEPT !.provider_id = provider_id]]
            /\ last' = Done("provider_register", c, "ok", req[c].form)
       ELSE /\ UNCHANGED <<providers, session>>
            /\ last' = Done("provider_register", c, "failed", req[c].form)

\* ------------------------------------------------------------------ KYC
\* lines 214-221
AnyLoggedIn(c) == session[c].user_id # 0

admin_required(c) == session[c].user_id # 0 /\ session[c].role = "admin"

\* lines 792-797 and 799-804: the two UPDATE statements
KycApproved(row) == [row EXCEPT !.kyc_verified = TRUE, !.kyc_status = "verified"]

KycRejectedStatusOnly(row) == [row EXCEPT !.kyc_status = "rejected"]

KycRejected(row) == [row EXCEPT !.kyc_verified = FALSE, !.kyc_status = "rejected"]

KycActions == {"approve", "reject", "other"}

\* lines 786-810; an UPDATE ... WHERE id = ? of an absent id changes no row
update_kyc_status(c, provider_id, action) ==
  /\ req[c] = Idle
  /\ UNCHANGED <<users, services, bookings, reviews, session, req>>
  /\ IF ~admin_required(c)
       THEN /\ UNCHANGED providers
            /\ last' = DoneBy("update_kyc_status", c, "admin_required", <<provider_id, action>>)
     ELSE IF action = "approve"
       THEN /\ providers' = [i \in Ids(providers) |->
                               IF i = provider_id THEN KycApproved(providers[i])
                               ELSE providers[i]]
            /\ last' = DoneBy("update_kyc_status", c, "approved", <<provider_id, action>>)
     ELSE IF action = "reject"
       THEN /\ providers' = [i \in Ids(providers) |->
                               IF i = provider_id THEN KycRejected(providers[i])
                               ELSE providers[i]]
            /\ last' = DoneBy("update_kyc_status", c, "rejected", <<provider_id, action>>)
     ELSE /\ UNCHANGED providers
          /\ last' = DoneBy("update_kyc_status", c, "none", <<provider_id, action>>)

\* ------------------------------------------------------------------ browse_providers
\* LEFT JOIN reviews r ON sp.id = r.provider_id ... GROUP BY sp.id
ReviewsOf(provider_id) == {i \in Ids(reviews) : reviews[i].provider_id = provider_id}

RECURSIVE SumRatings(_)
SumRatings(S) ==
  IF S = {} THEN 0
  ELSE LET i == CHOOSE i \in S : TRUE IN reviews[i].rating + SumRatings(S \ {i})

\* AVG(r.rating) as the fraction sum/n; it is NULL when the group has no review
avg_rating(provider_id) ==
  [n |-> Cardinality(ReviewsOf(provider_id)), sum |-> SumRatings(ReviewsOf(provider_id))]

IsNull(a) == a.n = 0

\* SQLite's order of two AVG values: NULL is smaller than every number
AvgLessNullsLargest(a, b) ==
  IF IsNull(b) THEN ~IsNull(a)
  ELSE IF IsNull(a) THEN FALSE
  ELSE a.sum * b.n < b.sum * a.n

AvgLess(a, b) ==
  IF IsNull(a) THEN ~IsNull(b)
  ELSE IF IsNull(b) THEN FALSE
  ELSE a.sum * b.n < b.sum * a.n

\* lines 334 and 343: the WHERE clause
WhereActiveOnly(row, service_name) ==
  /\ TruthyStr(service_name) => row.service_name = service_name
  /\ row.status = "active"

WhereBookable(row, service_name) ==
  /\ TruthyStr(service_name) => row.service_name = service_name
  /\ row.kyc_verified
  /\ row.status = "active"

\* lines 336 and 345: ORDER BY avg_rating DESC, sp.hourly_rate ASC
OrderByBefore(p, q) ==
  \/ AvgLess(avg_rating(q), avg_rating(p))
  \/ /\ ~AvgLess(avg_rating(p), avg_rating(q))
     /\ providers[p].hourly_rate < providers[q].hourly_rate

\* the sorter: x goes before the first row it must precede
RECURSIVE InsertRow(_, _)
InsertRow(x, sorted) ==
  IF sorted = <<>> THEN <<x>>
  ELSE IF OrderByBefore(x, Head(sorted)) THEN <<x>> \o sorted
  ELSE <<Head(sorted)>> \o InsertRow(x, Tail(sorted))

RECURSIVE SortRows(_)
SortRows(rows) ==
  IF rows = <<>> THEN <<>>
  ELSE InsertRow(rows[Len(rows)], SortRows(SubSeq(rows, 1, Len(rows) - 1)))

\* the orders in which the grouped rows may reach the sorter
Perms(S) ==
  {f \in [1..Cardinality(S) -> S] : \A i, j \in 1..Cardinality(S) : f[i] = f[j] => i = j}

Selected(service_name) ==
  {p \in Ids(providers) : WhereBookable(providers[p], service_name)}

ServiceFilters == {<<>>, <<"Plumbing">>, <<"Tutoring">>}

\* lines 322-353: the result is the sequence of provider ids of the rows
browse_providers(c, service_name) ==
  /\ req[c] = Idle
  /\ \E rows \in Perms(Selected(service_name)) :
       last' = [Done("browse_providers", c, "ok", service_name)
                  EXCEPT !.result = SortRows(rows)]
  /\ UNCHANGED <<users, services, providers, bookings, reviews, session, req>>

\* ------------------------------------------------------------------ create_booking
\* lines 206-212
login_required(c) == session[c].user_id # 0

\* line 652
TotalAmountFlat(hourly_rate, duration_hours) == hourly_rate

TotalAmount(hourly_rate, duration_hours) == hourly_rate * duration_hours

\* line 92: status TEXT DEFAULT 'pending'
BookingStartsConfirmed == "confirmed"

BookingDefaultStatus == "pending"

Durations == {-1, 0, 2}

BookingForms ==
  { [provider_id |-> p, service_name |-> <<"Plumbing">>, duration_hours |-> d] :
      p \in 1..(MaxProviders + 1), d \in Durations }

\* lines 631-669
create_booking(c, form) ==
  /\ req[c] = Idle
  /\ Len(bookings) < MaxBookings
  /\ UNCHANGED <<users, services, providers, reviews, session, req>>
  /\ IF ~login_required(c)
       THEN /\ UNCHANGED bookings
            /\ last' = Done("create_booking", c, "login_required", form)
     ELSE IF form.provider_id \notin Ids(providers)
       THEN /\ UNCHANGED bookings
            /\ last' = Done("create_booking", c, "provider_not_found", form)
     ELSE /\ bookings' = Append(bookings,
                [user_id |-> session[c].user_id, provider_id |-> form.provider_id,
                 service_name |-> form.service_name,
                 duration_hours |-> form.duration_hours,
                 total_amount |-> TotalAmount(providers[form.provider_id].hourly_rate,
                                              form.duration_hours),
                 status |-> BookingDefaultStatus])
          /\ last' = Done("create_booking", c, "ok", form)

\* ------------------------------------------------------------------ catalog
MaxServices == 3

\* BINARY collation of the text values the model uses
Collate(tok) ==
  CASE tok = " " -> 0
    [] tok = "Art" -> 1
    [] tok = "Plumbing" -> 2
    [] tok = "Tutoring" -> 3
    [] tok = "events" -> 4
    [] tok = "home" -> 5
    [] tok = "personal" -> 6

RECURSIVE TextLess(_, _)
TextLess(a, b) ==
  IF b = <<>> THEN FALSE
  ELSE IF a = <<>> THEN TRUE
  ELSE IF Collate(Head(a)) # Collate(Head(b)) THEN Collate(Head(a)) < Collate(Head(b))
  ELSE TextLess(Tail(a), Tail(b))

\* ORDER BY category, name
ServiceBefore(i, j) ==
  \/ Collate(services[i].category) < Collate(services[j].category)
  \/ /\ services[i].category = services[j].category
     /\ TextLess(services[i].name, services[j].name)

RECURSIVE InsertService(_, _)
InsertService(x, sorted) ==
  IF sorted = <<>> THEN <<x>>
  ELSE IF ServiceBefore(x, Head(sorted)) THEN <<x>> \o sorted
  ELSE <<Head(sorted)>> \o InsertService(x, Tail(sorted))

RECURSIVE SortServices(_)
SortServices(rows) ==
  IF rows = <<>> THEN <<>>
  ELSE InsertService(rows[Len(rows)], SortServices(SubSeq(rows, 1, Len(rows) - 1)))

\* lines 835 and 837: WHERE is_active = 1, or no WHERE clause
SelectedServices(active_only) ==
  {i \in Ids(services) : active_only => services[i].is_active}

\* lines 288-320: the active listings in (category, name) order
browse_services(c) ==
  /\ req[c] = Idle
  /\ \E rows \in Perms(SelectedServices(TRUE)) :
       last' = [Done("browse_services", c, "ok", <<>>) EXCEPT !.result = SortServices(rows)]
  /\ UNCHANGED <<users, services, providers, bookings, reviews, session, req>>

\* lines 828-840
api_services(c, active_only) ==
  /\ req[c] = Idle
  /\ \E rows \in Perms(SelectedServices(active_only)) :
       last' = [Done("api_services", c, "ok", active_only)
                  EXCEPT !.result = SortServices(rows)]
  /\ UNCHANGED <<users, services, providers, bookings, reviews, session, req>>

ServiceForms ==
  { [name |-> n, category |-> cat] :
      n \in {<<" ", "Art">>, <<" ">>, <<"Plumbing">>}, cat \in {"events", ""} }

\* lines 725-750; services.name has no UNIQUE constraint
add_service(c, form) ==
  LET name == Strip(form.name)
      category == form.category
  IN  /\ req[c] = Idle
      /\ Len(services) < MaxServices
      /\ UNCHANGED <<users, providers, bookings, reviews, session, req>>
      /\ IF ~admin_required(c)
           THEN /\ UNCHANGED services
                /\ last' = DoneBy("add_service", c, "admin_required", form)
         ELSE IF ~TruthyStr(name) \/ category = ""
           THEN /\ UNCHANGED services
                /\ last' = DoneBy("add_service", c, "validation", form)
         ELSE /\ services' = Append(services,
                    [name |-> name, category |-> category, is_active |-> TRUE])
              /\ last' = DoneBy("add_service", c, "ok", form)

\* line 760: new_status = not service['is_active']
AlwaysDeactivate(is_active) == FALSE

ToggledFlag(is_active) == ~is_active

\* lines 752-768
toggle_service_status(c, service_id) ==
  /\ req[c] = Idle
  /\ UNCHANGED <<users, providers, bookings, reviews, session, req>>
  /\ IF ~admin_required(c)
       THEN /\ UNCHANGED services
            /\ last' = DoneBy("toggle_service_status", c, "admin_required", service_id)
     ELSE IF service_id \in Ids(services)
       THEN /\ services' = [services EXCEPT ![service_id].is_active =
                                              ToggledFlag(services[service_id].is_active)]
            /\ last' = DoneBy("toggle_service_status", c, "ok", service_id)
     ELSE /\ UNCHANGED services
          /\ last' = DoneBy("toggle_service_status", c, "not_found", service_id)

\* ------------------------------------------------------------------ api_providers
\* lines 853 and 862: the WHERE clause
WhereApi(row, service_name) ==
  /\ TruthyStr(service_name) => row.service_name = service_name
  /\ row.kyc_verified

\* lines 855 and 864: ORDER BY avg_rating DESC
ApiOrderBefore(p, q) == AvgLess(avg_rating(q), avg_rating(p))

RECURSIVE InsertApiRow(_, _)
InsertApiRow(x, sorted) ==
  IF sorted = <<>> THEN <<x>>
  ELSE IF ApiOrderBefore(x, Head(sorted)) THEN <<x>> \o sorted
  ELSE <<Head(sorted)>> \o InsertApiRow(x, Tail(sorted))

RECURSIVE SortApiRows(_)
SortApiRows(rows) ==
  IF rows = <<>> THEN <<>>
  ELSE InsertApiRow(rows[Len(rows)], SortApiRows(SubSeq(rows, 1, Len(rows) - 1)))

ApiSelected(service_name) ==
  {p \in Ids(providers) : WhereApi(providers[p], service_name)}

\* lines 842-868
api_providers(c, service_name) ==
  /\ req[c] = Idle
  /\ \E rows \in Perms(ApiSelected(service_name)) :
       last' = [Done("api_providers", c, "ok", service_name)
                  EXCEPT !.result = SortApiRows(rows)]
  /\ UNCHANGED <<users, services, providers, bookings, reviews, session, req>>

\* ------------------------------------------------------------------ transition
\* Booking Engine state graph (specification section 4.4)
ValidTransition(from, to) ==
  <<from, to>> \in { <<"pending", "confirmed">>, <<"pending", "cancelled">>,
                     <<"confirmed", "completed">>, <<"confirmed", "cancelled">> }

Statuses == {"pending", "confirmed", "completed", "cancelled"}

\* the actor is the booking's own customer or provider, or an admin
MayTransition(c, booking) ==
  \/ session[c].user_id # 0 /\ session[c].user_id = booking.user_id
  \/ session[c].provider_id # 0 /\ session[c].provider_id = booking.provider_id
  \/ admin_required(c)

\* first half of transition: read the current status and validate the request
transition_read(c, booking_id, new_status) ==
  /\ req[c] = Idle
  /\ UNCHANGED <<users, services, providers, bookings, reviews, session>>
  /\ IF booking_id \notin Ids(bookings)
       THEN /\ last' = Done("transition", c, "NotFound", booking_id)
            /\ UNCHANGED req
     ELSE IF ~MayTransition(c, bookings[booking_id])
       THEN /\ last' = Done("transition", c, "Forbidden", booking_id)
            /\ UNCHANGED req
     ELSE IF ~ValidTransition(bookings[booking_id].status, new_status)
       THEN /\ last' = Done("transition", c, "IllegalTransition", booking_id)
            /\ UNCHANGED req
     ELSE /\ req' = [req EXCEPT ![c] =
                       [op |-> "transition", booking_id |-> booking_id,
                        read_status |-> bookings[booking_id].status,
                        new_status |-> new_status]]
          /\ UNCHANGED last

\* the write commits only when the status is still the one that was read
BlindWrite(read_status, current) == TRUE

CompareAndSwap(read_status, current) == read_status = current

\* second half of transition: the write (specification section 5)
transition_write(c) ==
  LET r == req[c]
  IN  /\ r.op = "transition"
      /\ req' = [req EXCEPT ![c] = Idle]
      /\ UNCHANGED <<users, services, providers, reviews, session>>
      /\ IF CompareAndSwap(r.read_status, bookings[r.booking_id].status)
           THEN /\ bookings' = [bookings EXCEPT ![r.booking_id].status = r.new_status]
                /\ last' = Done("transition", c, "ok", r.booking_id)
           ELSE /\ UNCHANGED bookings
                /\ last' = Done("transition", c, "IllegalTransition", r.booking_id)

\* ------------------------------------------------------------------ submitReview
\* line 127: CHECK (rating >= 1 AND rating <= 5)
ValidRating(rating) == rating >= 1 /\ rating <= 5

Ratings == {0, 5}

\* precondition booking.status == completed (specification section 4.5)
ReviewAnyStarted(status) == status # "pending"

ReviewAllowed(status) == status = "completed"

\* Reputation Ledger (specification section 4.5)
submitReview(c, booking_id, rating) ==
  /\ req[c] = Idle
  /\ Len(reviews) < MaxReviews
  /\ UNCHANGED <<users, services, providers, bookings, session, req>>
  /\ IF booking_id \notin Ids(bookings)
       THEN /\ UNCHANGED reviews
            /\ last' = Done("submitReview", c, "NotFound", booking_id)
     ELSE IF ~ReviewAllowed(bookings[booking_id].status)
       THEN /\ UNCHANGED reviews
            /\ last' = Done("submitReview", c, "BookingNotCompleted", booking_id)
     ELSE IF session[c].user_id = 0 \/ session[c].user_id # bookings[booking_id].user_id
       THEN /\ UNCHANGED reviews
            /\ last' = Done("submitReview", c, "Forbidden", booking_id)
     ELSE IF ~ValidRating(rating)
       THEN /\ UNCHANGED reviews
            /\ last' = Done("submitReview", c, "InvalidRating", booking_id)
     ELSE /\ reviews' = Append(reviews,
                [booking_id |-> booking_id, user_id |-> bookings[booking_id].user_id,
                 provider_id |-> bookings[booking_id].provider_id, rating |-> rating])
          /\ last' = Done("submitReview", c, "ok", booking_id)

\* ------------------------------------------------------------------ specifications
\* registration of customers and providers, with every form
NextReg ==
  \/ \E c \in Clients, form \in UserForms : register_check(c, form)
  \/ \E c \in Clients : register_insert(c)
  \/ \E c \in Clients, form \in ProviderForms : provider_register_check(c, form)
  \/ \E c \in Clients : provider_register_insert(c)
  \/ \E c \in Clients : logout(c)

SpecReg == Init /\ [][NextReg]_vars

\* provider registration and the admin's KYC decisions
KycProviderForms ==
  { [GoodProviderForm EXCEPT !.email = e, !.service_name = s] :
      e \in {<<"a">>, <<"B", " ">>}, s \in {<<"Plumbing">>, <<"Tutoring">>} }

AdminCredentials ==
  { [email |-> AdminEmail, password |-> AdminPassword],
    [email |-> AdminEmail, password |-> Pw(8)] }

NextKyc ==
  \/ \E c \in Clients, form \in KycProviderForms : provider_register_check(c, form)
  \/ \E c \in Clients : provider_register_insert(c)
  \/ \E c \in Clients, cred \in AdminCredentials : login(c, cred)
  \/ \E c \in Clients, p \in 1..(MaxProviders + 1), a \in KycActions :
       update_kyc_status(c, p, a)
  \/ \E c \in Clients : logout(c)

SpecKyc == Init /\ [][NextKyc]_vars

\* bookings: creation, transitions and reviews
BookUserForms ==
  {[email |-> <<"a">>, password |-> Pw(8), full_name |-> <<"n">>, phone |-> <<"9">>]}

BookProviderForms == {[GoodProviderForm EXCEPT !.hourly_rate = r] : r \in {1, 2}}

NextBook ==
  \/ \E c \in Clients, form \in BookUserForms : register_check(c, form)
  \/ \E c \in Clients : register_insert(c)
  \/ \E c \in Clients, form \in BookProviderForms : provider_register_check(c, form)
  \/ \E c \in Clients : provider_register_insert(c)
  \/ \E c \in Clients, form \in BookingForms : create_booking(c, form)
  \/ \E c \in Clients, b \in 1..(MaxBookings + 1), st \in Statuses :
       transition_read(c, b, st)
  \/ \E c \in Clients : transition_write(c)
  \/ \E c \in Clients, b \in 1..(MaxBookings + 1), r \in Ratings : submitReview(c, b, r)

SpecBook == Init /\ [][NextBook]_vars

\* the customer-facing listing over every provider table the schema admits:
\* status is a column no handler writes, so a row that is not active comes
\* from the store, not from a request
ProviderRow(service_name, hourly_rate, kyc_status, status) ==
  [email |-> <<"a">>, password_hash |-> generate_password_hash(Pw(8)),
   business_name |-> <<"b">>, owner_name |-> <<"o">>, phone |-> <<"9">>,
   service_name |-> service_name, location |-> <<"l">>, hourly_rate |-> hourly_rate,
   experience_years |-> 1, kyc_verified |-> (kyc_status = "verified"),
   kyc_status |-> kyc_status, status |-> status]

WithEmails(table) ==
  [i \in Ids(table) |-> [table[i] EXCEPT !.email = <<"a">> \o [k \in 1..i |-> "x"]]]

Tables(rows, maxLen) ==
  UNION {[1..n -> rows] : n \in 0..maxLen}

ListingRows ==
  { ProviderRow(s, 2, k, st) :
      s \in {<<"Plumbing">>, <<"Tutoring">>},
      k \in {"pending", "verified"}, st \in {"active", "suspended"} }

InitListing ==
  /\ users = <<AdminUser>>
  /\ services = DefaultServices
  /\ \E t \in Tables(ListingRows, MaxProviders) : providers = WithEmails(t)
  /\ bookings = <<>>
  /\ reviews = <<>>
  /\ session = [c \in Clients |-> EmptySession]
  /\ req = [c \in Clients |-> Idle]
  /\ last = Done("init", 0, "ok", <<>>)

NextListing ==
  \/ \E c \in Clients, cred \in AdminCredentials : login(c, cred)
  \/ \E c \in Clients, p \in 1..(MaxProviders + 1), a \in KycActions :
       update_kyc_status(c, p, a)
  \/ \E c \in Clients, s \in ServiceFilters : browse_providers(c, s)

SpecListing == InitListing /\ [][NextListing]_vars

\* the ranking of the listing over every provider and review table
QueryRows ==
  { ProviderRow(s, r, k, "active") :
      s \in {<<"Plumbing">>, <<"Tutoring">>}, r \in {1, 2}, k \in {"pending", "verified"} }

QueryRatings == {1, 5}

ReviewRows(nProviders) ==
  { [booking_id |-> 1, user_id |-> 1, provider_id |-> p, rating |-> r] :
      p \in 1..nProviders, r \in QueryRatings }

InitQuery ==
  /\ users = <<AdminUser>>
  /\ services = DefaultServices
  /\ \E t \in Tables(QueryRows, MaxProviders) : providers = WithEmails(t)
  /\ bookings = <<>>
  /\ \E t \in Tables(ReviewRows(MaxProviders), MaxQueryReviews) :
       /\ \A i \in Ids(t) : t[i].provider_id \in Ids(providers)
       /\ reviews = t
  /\ session = [c \in Clients |-> EmptySession]
  /\ req = [c \in Clients |-> Idle]
  /\ last = Done("init", 0, "ok", <<>>)

NextQuery ==
  \E c \in Clients, s \in ServiceFilters : browse_providers(c, s)

SpecQuery == InitQuery /\ [][NextQuery]_vars

\* ------------------------------------------------------------------ claims
\* C1: a booking's total_amount is the provider's hourly_rate at the moment
\* create_booking ran times the booking's duration_hours, and no later step
\* changes the total_amount of a booking that exists.
C1_TotalAmountFrozen ==
  [][ /\ \A b \in Ids(bookings) :
           /\ b \in Ids(bookings')
           /\ bookings'[b].total_amount = bookings[b].total_amount
      /\ \A b \in Ids(bookings') \ Ids(bookings) :
           bookings'[b].total_amount =
             providers[bookings'[b].provider_id].hourly_rate * bookings'[b].duration_hours
    ]_vars

C1_Witness ==
  \E b \in Ids(bookings) :
    /\ bookings[b].duration_hours = 2
    /\ bookings[b].total_amount = 2 * providers[bookings[b].provider_id].hourly_rate
    /\ bookings[b].status = "completed"

\* C2: a booking starts pending, each change of its status follows an edge of
\* pending->confirmed, pending->cancelled, confirmed->completed,
\* confirmed->cancelled, and completed and cancelled are never left.
C2_StatusPath ==
  [][ /\ \A b \in Ids(bookings') \ Ids(bookings) : bookings'[b].status = "pending"
      /\ \A b \in Ids(bookings) :
           /\ b \in Ids(bookings')
           /\ \/ bookings'[b].status = bookings[b].status
              \/ bookings[b].status = "pending"
                   /\ bookings'[b].status \in {"confirmed", "cancelled"}
              \/ bookings[b].status = "confirmed"
                   /\ bookings'[b].status \in {"completed", "cancelled"}
    ]_vars

C2_Witness ==
  /\ \E b \in Ids(bookings) : bookings[b].status = "completed"
  /\ last.op = "transition" /\ last.outcome = "IllegalTransition"

\* C3: the listing returns exactly the providers that are kyc_verified and
\* active (and bound to the service of the filter, when one is given), each
\* once; a provider whose KYC was rejected after approval is not in it.
C3_ListingExact ==
  last.op = "browse_providers" =>
    /\ \A p \in Ids(providers) :
         (\E i \in 1..Len(last.result) : last.result[i] = p)
           <=> /\ providers[p].kyc_verified
               /\ providers[p].status = "active"
               /\ last.arg # <<>> => providers[p].service_name = last.arg
    /\ \A i, j \in 1..Len(last.result) : last.result[i] = last.result[j] => i = j

C3_Witness ==
  /\ last.op = "browse_providers"
  /\ Len(last.result) > 0
  /\ \E p \in Ids(providers) :
       /\ providers[p].kyc_status = "rejected" /\ providers[p].status = "active"
       /\ last.arg # <<>> => providers[p].service_name = last.arg

\* C4: kyc_verified is true exactly when kyc_status is verified; a new profile
\* is (false, pending); approve makes the profile (true, verified) and reject
\* (false, rejected), changing nothing else, so a repeated decision changes
\* nothing.
C4_KycConsistent ==
  /\ [](\A p \in Ids(providers) :
          /\ providers[p].kyc_verified <=> providers[p].kyc_status = "verified"
          /\ providers[p].kyc_status \in {"pending", "verified", "rejected"})
  /\ [][ /\ \A p \in Ids(providers') \ Ids(providers) :
              ~providers'[p].kyc_verified /\ providers'[p].kyc_status = "pending"
         /\ \A p \in Ids(providers) :
              /\ p \in Ids(providers')
              /\ \/ providers'[p] = providers[p]
                 \/ /\ last'.op = "update_kyc_status" /\ last'.arg = <<p, "approve">>
                    /\ providers'[p] = [providers[p] EXCEPT !.kyc_verified = TRUE,
                                                            !.kyc_status = "verified"]
                 \/ /\ last'.op = "update_kyc_status" /\ last'.arg = <<p, "reject">>
                    /\ providers'[p] = [providers[p] EXCEPT !.kyc_verified = FALSE,
                                                            !.kyc_status = "rejected"]
         /\ (last' # last /\ last'.op = "update_kyc_status"
               /\ last'.outcome \in {"approved", "rejected"}
               /\ last'.arg[1] \in Ids(providers)) =>
              /\ providers'[last'.arg[1]].kyc_verified = (last'.arg[2] = "approve")
              /\ providers'[last'.arg[1]].kyc_status =
                   (IF last'.arg[2] = "approve" THEN "verified" ELSE "rejected")
       ]_vars

C4_Witness ==
  /\ \E p \in Ids(providers) : providers[p].kyc_status = "verified"
  /\ \E p \in Ids(providers) : providers[p].kyc_status = "rejected"
  /\ last.op = "update_kyc_status" /\ last.outcome = "approved"

\* C5: the write of a transition succeeds exactly when the booking still has
\* the status the request read; otherwise it fails with IllegalTransition and
\* leaves the bookings as they are, so of two requests racing from confirmed
\* one fixes the terminal status and the other fails.
C5_CompareAndSwap ==
  [][ \A c \in Clients :
        (req[c].op = "transition" /\ req'[c] = Idle) =>
          IF bookings[req[c].booking_id].status = req[c].read_status
            THEN /\ bookings' = [bookings EXCEPT ![req[c].booking_id].status =
                                                   req[c].new_status]
                 /\ last'.outcome = "ok"
            ELSE /\ bookings' = bookings
                 /\ last'.outcome = "IllegalTransition"
    ]_vars

C5_Witness ==
  \E c \in Clients :
    /\ req[c].op = "transition"
    /\ req[c].read_status = "confirmed"
    /\ req[c].new_status = "cancelled"
    /\ bookings[req[c].booking_id].status = "completed"

\* C6: submitReview on a booking that is not completed answers
\* BookingNotCompleted and adds no review, whoever calls it; a review is only
\* ever added for a completed booking, so every stored review refers to one.
C6_ReviewNeedsCompleted ==
  /\ [](\A r \in Ids(reviews) :
          /\ reviews[r].booking_id \in Ids(bookings)
          /\ bookings[reviews[r].booking_id].status = "completed")
  /\ [][ /\ reviews' # reviews =>
              /\ Len(reviews') = Len(reviews) + 1
              /\ SubSeq(reviews', 1, Len(reviews)) = reviews
              /\ reviews'[Len(reviews')].booking_id \in Ids(bookings)
              /\ bookings[reviews'[Len(reviews')].booking_id].status = "completed"
         /\ (last' # last /\ last'.op = "submitReview" /\ last'.arg \in Ids(bookings)
               /\ bookings[last'.arg].status # "completed") =>
              /\ last'.outcome = "BookingNotCompleted"
              /\ reviews' = reviews
       ]_vars

C6_Witness ==
  /\ last.op = "submitReview"
  /\ last.outcome = "BookingNotCompleted"
  /\ bookings[last.arg].status = "confirmed"

\* C7: no two customer accounts and no two provider accounts have the same
\* case-folded email; a registration whose email is already used by that kind
\* adds no account; one email may belong to a customer and to a provider.
C7_EmailUniquePerKind ==
  /\ [](/\ \A i, j \in Ids(users) :
             StrLower(users[i].email) = StrLower(users[j].email) => i = j
        /\ \A i, j \in Ids(providers) :
             StrLower(providers[i].email) = StrLower(providers[j].email) => i = j)
  /\ [][ /\ (last' # last /\ last'.op = "register"
               /\ \E i \in Ids(users) :
                    StrLower(users[i].email) = StrLower(Strip(last'.arg.email))) =>
              /\ last'.outcome # "ok"
              /\ users' = users
         /\ (last' # last /\ last'.op = "provider_register"
               /\ \E i \in Ids(providers) :
                    StrLower(providers[i].email) = StrLower(Strip(last'.arg.email))) =>
              /\ last'.outcome # "ok"
              /\ providers' = providers
       ]_vars

C7_Witness ==
  /\ \E i \in Ids(users), j \in Ids(providers) : users[i].email = providers[j].email
  /\ last.op = "register" /\ last.outcome = "failed"

\* C8: a registration is refused as invalid exactly when the password has
\* fewer than 8 characters or a required text field is empty after trimming;
\* a numeric field whose value is 0 is filled.
C8_ValidationExactly ==
  /\ last.op = "register" =>
       (last.outcome = "validation"
          <=> \/ Len(last.arg.password) < 8
              \/ Strip(last.arg.email) = <<>>
              \/ Strip(last.arg.full_name) = <<>>)
  /\ last.op = "provider_register" =>
       (last.outcome = "validation"
          <=> \/ Len(last.arg.password) < 8
              \/ \E f \in {last.arg.email, last.arg.business_name, last.arg.owner_name,
                           last.arg.phone, last.arg.service_name, last.arg.location} :
                   Strip(f) = <<>>)

\* C9: every stored booking has a positive duration_hours and a provider_id
\* of an existing provider profile.
C9_StoredBookingsValid ==
  \A b \in Ids(bookings) :
    /\ bookings[b].duration_hours > 0
    /\ bookings[b].provider_id \in Ids(providers)

\* C10: in the listing, of two adjacent providers the first has the greater
\* average rating, or the same average and an hourly rate that is not greater;
\* a provider without reviews counts as having the lowest average.
C10_Ranked ==
  last.op = "browse_providers" =>
    \A i \in 1..(Len(last.result) - 1) :
      LET p == last.result[i]
          q == last.result[i + 1]
          np == Cardinality(ReviewsOf(p))
          nq == Cardinality(ReviewsOf(q))
          sp == SumRatings(ReviewsOf(p))
          sq == SumRatings(ReviewsOf(q))
      IN  \/ np > 0 /\ nq = 0
          \/ np > 0 /\ nq > 0 /\ sp * nq > sq * np
          \/ /\ (np = 0 /\ nq = 0) \/ (np > 0 /\ nq > 0 /\ sp * nq = sq * np)
             /\ providers[p].hourly_rate <= providers[q].hourly_rate

C10_Witness ==
  /\ last.op = "browse_providers"
  /\ Len(last.result) = 2
  /\ ReviewsOf(last.result[1]) # {} /\ ReviewsOf(last.result[2]) # {}
  /\ SumRatings(ReviewsOf(last.result[1])) * Cardinality(ReviewsOf(last.result[2]))
       = SumRatings(ReviewsOf(last.result[2])) * Cardinality(ReviewsOf(last.result[1]))
  /\ providers[last.result[1]].hourly_rate < providers[last.result[2]].hourly_rate

\* ------------------------------------------------------------------ JSON query surface
ApiProviderForms ==
  { [GoodProviderForm EXCEPT !.email = <<"a">>, !.hourly_rate = 2],
    [GoodProviderForm EXCEPT !.email = <<"b">>, !.hourly_rate = 1] }

NextApi ==
  \/ \E c \in Clients, form \in ApiProviderForms : provider_register_check(c, form)
  \/ \E c \in Clients : provider_register_insert(c)
  \/ \E c \in Clients, cred \in AdminCredentials : login(c, cred)
  \/ \E c \in Clients, p \in 1..MaxProviders : update_kyc_status(c, p, "approve")
  \/ \E c \in Clients, sv \in 1..MaxServices : toggle_service_status(c, sv)
  \/ \E c \in Clients, s \in {<<>>, <<"Plumbing">>} : api_providers(c, s)
  \/ \E c \in Clients, a \in BOOLEAN : api_services(c, a)

SpecApi == Init /\ [][NextApi]_vars

\* C11: the JSON surface answers as the core read paths do: the providers
\* returned are exactly the kyc_verified, active ones of the filter, ranked by
\* average rating descending and then hourly rate ascending; the active
\* services returned are exactly the active listings in (category, name) order.
C11_ApiMirrorsCore ==
  /\ last.op = "api_providers" =>
       /\ \A p \in Ids(providers) :
            (\E i \in 1..Len(last.result) : last.result[i] = p)
              <=> /\ providers[p].kyc_verified
                  /\ providers[p].status = "active"
                  /\ last.arg # <<>> => providers[p].service_name = last.arg
       /\ \A i \in 1..(Len(last.result) - 1) :
            LET p == last.result[i]
                q == last.result[i + 1]
                np == Cardinality(ReviewsOf(p))
                nq == Cardinality(ReviewsOf(q))
                sp == SumRatings(ReviewsOf(p))
                sq == SumRatings(ReviewsOf(q))
            IN  \/ np > 0 /\ nq = 0
                \/ np > 0 /\ nq > 0 /\ sp * nq > sq * np
                \/ /\ (np = 0 /\ nq = 0) \/ (np > 0 /\ nq > 0 /\ sp * nq = sq * np)
                   /\ providers[p].hourly_rate <= providers[q].hourly_rate
  /\ (last.op = "api_services" /\ last.arg) =>
       /\ \A sv \in Ids(services) :
            (\E i \in 1..Len(last.result) : last.result[i] = sv) <=> services[sv].is_active
       /\ \A i \in 1..(Len(last.result) - 1) :
            ~ServiceBefore(last.result[i + 1], last.result[i])

\* ------------------------------------------------------------------ admin gate
AdminProviderForms == {GoodProviderForm}

NextAdmin ==
  \/ \E c \in Clients, form \in BookUserForms : register_check(c, form)
  \/ \E c \in Clients : register_insert(c)
  \/ \E c \in Clients, form \in AdminProviderForms : provider_register_check(c, form)
  \/ \E c \in Clients : provider_register_insert(c)
  \/ \E c \in Clients, cred \in AdminCredentials : login(c, cred)
  \/ \E c \in Clients, p \in 1..MaxProviders, a \in {"approve", "reject"} :
       update_kyc_status(c, p, a)
  \/ \E c \in Clients, sv \in 1..MaxServices : toggle_service_status(c, sv)
  \/ \E c \in Clients, form \in ServiceForms : add_service(c, form)
  \/ \E c \in Clients : logout(c)

SpecAdmin == Init /\ [][NextAdmin]_vars

\* C12: a step changes a provider's row or the listings only when it is a KYC
\* decision, a toggle or an added listing called from a session that holds the
\* admin role; called by anyone else these handlers change neither.
C12_AdminOnly ==
  [][ ((\E p \in Ids(providers) : providers'[p] # providers[p]) \/ services' # services) =>
        /\ last'.op \in {"update_kyc_status", "toggle_service_status", "add_service"}
        /\ session[last'.client].user_id # 0
        /\ session[last'.client].role = "admin"
    ]_vars

C12_Witness ==
  /\ last.op \in {"update_kyc_status", "toggle_service_status", "add_service"}
  /\ last.outcome = "admin_required"
  /\ session[last.client].user_id # 0
  /\ session[last.client].role = "user"
  /\ session[last.client].provider_id # 0
  /\ \E p \in Ids(providers) : providers[p].kyc_status = "verified"

DashboardLimit == 10

Take(rows, n) == IF Len(rows) <= n THEN rows ELSE SubSeq(rows, 1, n)

\* lines 223-229
provider_required(c) == session[c].provider_id # 0

AnyBooking(user_id) == Ids(bookings)

\* lines 586-593: JOIN service_providers ... WHERE b.user_id = ?
BookingsOfUser(user_id) ==
  {b \in Ids(bookings) : /\ bookings[b].provider_id \in Ids(providers)
                         /\ bookings[b].user_id = user_id}

\* lines 540-547: JOIN users ... WHERE b.provider_id = ?
BookingsOfProvider(provider_id) ==
  {b \in Ids(bookings) : /\ bookings[b].user_id \in Ids(users)
                         /\ bookings[b].provider_id = provider_id}

\* lines 699-705: both joins, no WHERE
BookingsJoined ==
  {b \in Ids(bookings) : /\ bookings[b].user_id \in Ids(users)
                         /\ bookings[b].provider_id \in Ids(providers)}

\* ORDER BY created_at DESC LIMIT 10: created_at has one-second resolution, so
\* rows of the same second come in an order SQLite does not fix; the result is
\* the sequence of booking ids of the rows shown
RecentBookings(ids) == {Take(rows, DashboardLimit) : rows \in Perms(ids)}

\* lines 575-607
user_dashboard(c) ==
  /\ req[c] = Idle
  /\ UNCHANGED <<users, services, providers, bookings, reviews, session, req>>
  /\ IF ~login_required(c)
       THEN last' = DoneBy("user_dashboard", c, "login_required", <<>>)
       ELSE \E rows \in RecentBookings(BookingsOfUser(session[c].user_id)) :
              last' = [DoneBy("user_dashboard", c, "ok", <<>>) EXCEPT !.result = rows]

\* lines 529-572
provider_dashboard(c) ==
  /\ req[c] = Idle
  /\ UNCHANGED <<users, services, providers, bookings, reviews, session, req>>
  /\ IF ~provider_required(c)
       THEN last' = DoneBy("provider_dashboard", c, "provider_required", <<>>)
       ELSE \E rows \in RecentBookings(BookingsOfProvider(session[c].provider_id)) :
              last' = [DoneBy("provider_dashboard", c, "ok", <<>>) EXCEPT !.result = rows]

\* lines 672-713
admin_dashboard(c) ==
  /\ req[c] = Idle
  /\ UNCHANGED <<users, services, providers, bookings, reviews, session, req>>
  /\ IF ~admin_required(c)
       THEN last' = DoneBy("admin_dashboard", c, "admin_required", <<>>)
       ELSE \E rows \in RecentBookings(BookingsJoined) :
              last' = [DoneBy("admin_dashboard", c, "ok", <<>>) EXCEPT !.result = rows]

\* the dashboards over every bookings table two customers, the administrator
\* and two providers can have built with create_booking
MaxDashBookings == 2

DashUsers ==
  << AdminUser,
     [email |-> <<"a">>, password_hash |-> generate_password_hash(Pw(8)),
      full_name |-> <<"n">>, phone |-> <<"9">>, role |-> "user", status |-> "active"],
     [email |-> <<"b">>, password_hash |-> generate_password_hash(Pw(8)),
      full_name |-> <<"n">>, phone |-> <<"9">>, role |-> "user", status |-> "active"] >>

DashProviders ==
  << [ProviderRow(<<"Plumbing">>, 2, "verified", "active") EXCEPT !.email = <<"a">>],
     [ProviderRow(<<"Plumbing">>, 1, "verified", "active") EXCEPT !.email = <<"b">>] >>

DashBookingRows ==
  { [user_id |-> u, provider_id |-> p, service_name |-> <<"Plumbing">>,
     duration_hours |-> 2,
     total_amount |-> TotalAmount(DashProviders[p].hourly_rate, 2),
     status |-> BookingDefaultStatus] :
      u \in Ids(DashUsers), p \in Ids(DashProviders) }

InitDash ==
  /\ users = DashUsers
  /\ services = DefaultServices
  /\ providers = DashProviders
  /\ bookings \in Tables(DashBookingRows, MaxDashBookings)
  /\ reviews = <<>>
  /\ session = [c \in Clients |-> EmptySession]
  /\ req = [c \in Clients |-> Idle]
  /\ last = Done("init", 0, "ok", <<>>)

DashCredentials ==
  { [email |-> AdminEmail, password |-> AdminPassword],
    [email |-> <<"a">>, password |-> Pw(8)],
    [email |-> <<"b">>, password |-> Pw(8)] }

DashProviderCredentials ==
  { [email |-> <<"a">>, password |-> Pw(8)],
    [email |-> <<"b">>, password |-> Pw(8)] }

NextDash ==
  \/ \E c \in Clients, cred \in DashCredentials : login(c, cred)
  \/ \E c \in Clients, cred \in DashProviderCredentials : provider_login(c, cred)
  \/ \E c \in Clients : logout(c)
  \/ \E c \in Clients : user_dashboard(c)
  \/ \E c \in Clients : provider_dashboard(c)
  \/ \E c \in Clients : admin_dashboard(c)

SpecDash == InitDash /\ [][NextDash]_vars

\* C13: a customer dashboard lists only bookings whose user_id is the caller's
\* user id, a provider dashboard only bookings whose provider_id is the
\* caller's provider id, and a dashboard that shows a booking in which the
\* caller is neither the customer nor the provider was answered to a session
\* holding the admin role.
C13_ReadsScoped ==
  [][ (last' # last /\ last'.outcome = "ok"
         /\ last'.op \in {"user_dashboard", "provider_dashboard", "admin_dashboard"}) =>
        LET who == session[last'.client]
            shown == {last'.result[i] : i \in 1..Len(last'.result)}
        IN  /\ shown \subseteq Ids(bookings)
            /\ last'.op = "user_dashboard" =>
                 /\ who.user_id # 0
                 /\ \A b \in shown : bookings[b].user_id = who.user_id
            /\ last'.op = "provider_dashboard" =>
                 /\ who.provider_id # 0
                 /\ \A b \in shown : bookings[b].provider_id = who.provider_id
            /\ (\E b \in shown : /\ bookings[b].user_id # who.user_id
                                 /\ bookings[b].provider_id # who.provider_id) =>
                 /\ who.user_id # 0
                 /\ users[who.user_id].role = "admin"
                 /\ who.role = "admin"
    ]_vars

C13_Witness ==
  /\ last.op = "user_dashboard"
  /\ last.outcome = "ok"
  /\ session[last.client].role = "user"
  /\ Len(last.result) = 1
  /\ bookings[last.result[1]].user_id = session[last.client].user_id
  /\ \E b \in Ids(bookings) : bookings[b].user_id # session[last.client].user_id

\* C15: every provider profile's service_name is the name of a listing in the
\* catalog, so provider_register with a service_name that matches no listing
\* creates no profile.
C15_ServiceNameExists ==
  \A p \in Ids(providers) :
    \E s \in Ids(services) : services[s].name = providers[p].service_name

\* C16: update_kyc_status with the id of no provider, called by an
\* administrator, is answered with an error and not with the approved or
\* rejected message, and changes no provider profile.
C16_UnknownIdNotFound ==
  [][ (last' # last /\ last'.op = "update_kyc_status"
         /\ last'.outcome # "admin_required"
         /\ last'.arg[1] \notin Ids(providers)) =>
        /\ last'.outcome \notin {"approved", "rejected"}
        /\ providers' = providers
    ]_vars

\* accounts and sessions
SessionUserForms ==
  LET base == [email |-> <<"a">>, password |-> Pw(8), full_name |-> <<"n">>, phone |-> <<"9">>]
  IN  {base, [base EXCEPT !.email = <<"b">>], [base EXCEPT !.email = AdminEmail]}

SessionProviderForms == {GoodProviderForm}

SessionProviderCredentials ==
  { [email |-> <<"a">>, password |-> Pw(8)],
    [email |-> <<"a">>, password |-> Pw(7)] }

NextSession ==
  \/ \E c \in Clients, form \in SessionUserForms : register_check(c, form)
  \/ \E c \in Clients : register_insert(c)
  \/ \E c \in Clients, form \in SessionProviderForms : provider_register_check(c, form)
  \/ \E c \in Clients : provider_register_insert(c)
  \/ \E c \in Clients, cred \in Credentials : login(c, cred)
  \/ \E c \in Clients, cred \in SessionProviderCredentials : provider_login(c, cred)
  \/ \E c \in Clients : logout(c)

SpecSession == Init /\ [][NextSession]_vars

\* C17: a session whose role is admin carries the user_id of an account whose
\* stored role is admin; a session's role becomes admin only in a successful
\* login with the email and password of such an account; registration creates
\* accounts with role user only and no stored role changes; provider login and
\* provider registration leave every session's role as it was.
C17_AdminOnlyByLogin ==
  /\ [](\A c \in Clients :
          session[c].role = "admin" =>
            /\ session[c].user_id \in Ids(users)
            /\ users[session[c].user_id].role = "admin")
  /\ [][ /\ \A i \in Ids(users) : i \in Ids(users') /\ users'[i].role = users[i].role
         /\ \A i \in Ids(users') \ Ids(users) : users'[i].role = "user"
         /\ \A c \in Clients :
              (session'[c].role = "admin" /\ session[c].role # "admin") =>
                /\ last'.op = "login"
                /\ last'.outcome = "ok"
                /\ \E i \in ByEmail(users, StrLower(Strip(last'.arg.email))) :
                     /\ users[i].role = "admin"
                     /\ check_password_hash(users[i].password_hash, last'.arg.password)
                     /\ session'[c].user_id = i
         /\ last'.op \in {"provider_login", "provider_register"} =>
              \A c \in Clients : session'[c].role = session[c].role
       ]_vars

C17_Witness ==
  \E c, d \in Clients :
    /\ session[c].role = "admin"
    /\ session[c].provider_id # 0
    /\ session[d].role = "user"
    /\ session[d].provider_id # 0
    /\ Len(users) = MaxUsers
====
